---- MODULE Spec2Model ----
(***************************************************************************)
(* Model of the lessons/orders REST backend (src/express.js, lines 1-224;  *)
(* src/unnamed/part_000 is the same program without the /pictures routes   *)
(* and the search route).                                                  *)
(*                                                                         *)
(* The database is the pair of collections `lessons` and `orders`.  Every  *)
(* single driver call (findOne, insertOne, updateOne, find) is one atomic  *)
(* step on a collection; a handler that awaits two driver calls (the       *)
(* decrement handler) is two steps, and other requests may run between     *)
(* them.  Driver calls on a connected client do not fail; the only         *)
(* modelled failures are the ones the handlers' own code can produce.      *)
(*                                                                         *)
(* JSON values are tagged records so that values of different JavaScript   *)
(* types can be compared; strings are sequences of one-character strings.  *)
(***************************************************************************)
EXTENDS Integers, Sequences, FiniteSets, Bags

VARIABLES
    pc,                 \* position of connectDB()                  (39-54)
    lessonsCollection,  \* TRUE once the handle is assigned         (30, 43)
    ordersCollection,   \* TRUE once the handle is assigned         (30, 44)
    listening,          \* TRUE once app.listen was called          (49)
    lessons,            \* the "lessons" collection: _id -> document
    orders,             \* the "orders" collection: sequence of documents
    inflight,           \* decrement requests between findOne and updateOne (a bag)
    res                 \* the request handled by the last step and its response

vars == <<pc, lessonsCollection, ordersCollection, listening, lessons, orders, inflight, res>>

---------------------------------------------------------------------------
(* Bounds *)

MaxLessons == 2     \* stored lessons
MaxOrders == 1      \* stored orders
MaxInflight == 2    \* decrement requests awaiting their write

---------------------------------------------------------------------------
(* JSON / JavaScript values *)

Num(n) == [t |-> "num", n |-> n, s |-> <<>>]
Str(s) == [t |-> "str", n |-> 0, s |-> s]
Bool(b) == [t |-> "bool", n |-> IF b THEN 1 ELSE 0, s |-> <<>>]
Null == [t |-> "null", n |-> 0, s |-> <<>>]
Undefined == [t |-> "undef", n |-> 0, s |-> <<>>]

\* JavaScript ToBoolean, as applied by `!x` (line 88) and `!query` (167)
Truthy(v) ==
    CASE v.t = "num" -> v.n # 0
      [] v.t = "str" -> v.s # <<>>
      [] v.t = "bool" -> v.n = 1
      [] OTHER -> FALSE

\* The ten fields a lesson is created with (74-85, 92-103)
Fields == {"topic", "price", "location", "space", "category", "level",
           "duration", "image", "preview", "subject"}

\* Keys a request body may carry: the ten fields and one field outside the schema
Keys == Fields \cup {"note"}

\* A JSON object: a key that is absent reads as undefined
EmptyBody == [k \in Keys |-> Undefined]

\* Object.keys(updates) (125)
ObjectKeys(body) == {k \in Keys : body[k] # Undefined}

---------------------------------------------------------------------------
(* Request inputs *)

Art == <<"A", "r", "t">>
Math == <<"M", "a", "t", "h">>
Room == <<"R", "1">>
Word == <<"p">>

\* A payload with all ten fields truthy
MathLesson ==
    [k \in Keys |->
        CASE k = "topic" -> Str(Math)
          [] k = "price" -> Num(10)
          [] k = "location" -> Str(Room)
          [] k = "space" -> Num(1)
          [] k = "category" -> Str(Word)
          [] k = "level" -> Str(Word)
          [] k = "duration" -> Str(Word)
          [] k = "image" -> Str(Word)
          [] k = "preview" -> Str(Word)
          [] k = "subject" -> Str(Math)
          [] OTHER -> Undefined]

\* The same payload carrying a key outside the schema as well
NotedLesson == [MathLesson EXCEPT !["note"] = Str(Word)]

ValidBodies == {MathLesson, NotedLesson}

\* The falsy JSON values, and a field left out
FalsyValues == {Num(0), Str(<<>>), Bool(FALSE), Null, Undefined}

\* Payloads with a field falsy or absent: each falsy kind for the numeric
\* field space, 0 for price, and for each other field one falsy kind or the
\* field left out; a payload with two falsy fields; the empty object
InvalidBodies ==
    {[MathLesson EXCEPT !["space"] = v] : v \in FalsyValues}
    \cup {[MathLesson EXCEPT !["price"] = Num(0)],
          [MathLesson EXCEPT !["topic"] = Str(<<>>)],
          [MathLesson EXCEPT !["location"] = Null],
          [MathLesson EXCEPT !["category"] = Bool(FALSE)],
          [MathLesson EXCEPT !["level"] = Undefined],
          [MathLesson EXCEPT !["duration"] = Str(<<>>)],
          [MathLesson EXCEPT !["image"] = Undefined],
          [MathLesson EXCEPT !["preview"] = Null],
          [MathLesson EXCEPT !["subject"] = Undefined],
          [NotedLesson EXCEPT !["space"] = Num(0), !["level"] = Null],
          EmptyBody}

LessonBodies == ValidBodies \cup InvalidBodies

\* Bodies of PUT /api/lessons/:id
UpdateBodies ==
    { EmptyBody,
      [EmptyBody EXCEPT !["topic"] = Str(Art), !["space"] = Num(2), !["note"] = Null] }

\* Bodies of POST /api/orders (stored verbatim)
OrderBodies == {[EmptyBody EXCEPT !["topic"] = Str(Math), !["space"] = Num(1)]}

\* The :id route parameter: 0 stands for a string that is no ObjectId, the
\* others for well-formed ids (stored or not)
IdParams == 0..MaxLessons

\* Values of the q query parameter; <<>> is a missing or empty q
Queries == { <<>>, <<"a", "r", "t">>, <<"A", "r", "T">>, <<"z">>, <<".">>, <<"(">> }

\* Files under /pictures: the one present in the public directory and one absent
PublicFiles == {"leaf.png"}
PictureFiles == {"leaf.png", "none.png"}

---------------------------------------------------------------------------
(* Middleware stack, in registration order *)

\* cors (8), express.json (9), express.static on /pictures (15), the /pictures
\* 404 handler (19), the logger (33), then the routes (56-224)
MiddlewareStack == <<"cors", "json", "static", "pictures404", "logger", "router">>

\* A request as the stack sees it: whether its path is under /pictures, and
\* the file it names there
ApiRequest == [pictures |-> FALSE, file |-> ""]
PictureRequest(file) == [pictures |-> TRUE, file |-> file]

\* Express runs the middleware in order; each one either ends the request or
\* calls next().  The result names the middleware that responds and whether
\* the logger ran before it.
RECURSIVE Walk(_, _, _)
Walk(i, rq, logged) ==
    LET mw == MiddlewareStack[i] IN
    CASE mw = "static" ->
            IF rq.pictures /\ rq.file \in PublicFiles
            THEN [by |-> mw, logged |-> logged]
            ELSE Walk(i + 1, rq, logged)
      [] mw = "pictures404" ->
            IF rq.pictures
            THEN [by |-> mw, logged |-> logged]
            ELSE Walk(i + 1, rq, logged)
      [] mw = "logger" -> Walk(i + 1, rq, TRUE)
      [] mw = "router" -> [by |-> mw, logged |-> logged]
      [] OTHER -> Walk(i + 1, rq, logged)

Dispatch(rq) == Walk(1, rq, FALSE)

---------------------------------------------------------------------------
(* Responses *)

\* The request a step handled and the response it sent.  status = 0: the
\* step sent no response (the handler awaits its next driver call).
Response(op, stage, id, arg, q, status, message, lessonId, body, logged) ==
    [op |-> op, stage |-> stage, id |-> id, arg |-> arg, q |-> q,
     status |-> status, message |-> message, lessonId |-> lessonId,
     body |-> body, logged |-> logged]

NoRequest == Response("none", "", 0, EmptyBody, <<>>, 0, "", 0, {}, FALSE)

---------------------------------------------------------------------------
(* Driver operations on a collection *)

\* new ObjectId(lessonId) throws unless the string is a well-formed id
ObjectIdValid(id) == id >= 1

\* The _id the driver generates for an inserted document: a fresh one
InsertedId(coll) == Cardinality(DOMAIN coll) + 1

\* insertOne(doc)
InsertOne(coll, doc) ==
    [i \in DOMAIN coll \cup {InsertedId(coll)} |->
        IF i \in DOMAIN coll THEN coll[i] ELSE doc]

\* (variant: the update document given without $set replaces the document)
SetFields_replace(doc, updates) == updates

\* { $set: updates }: the named fields take the given values
SetFields(doc, updates) ==
    [k \in Keys |-> IF updates[k] # Undefined THEN updates[k] ELSE doc[k]]

\* { $inc: { space: -1 } } applies to a number (or creates the field)
CanInc(doc) == doc["space"].t \in {"num", "undef"}

\* (variant: an increment that leaves the value as it is)
IncSpace_noop(doc) == doc

IncSpace(doc) ==
    [doc EXCEPT !["space"] = Num((IF @.t = "num" THEN @.n ELSE 0) - 1)]

\* modifiedCount of an updateOne that matched `old` and produced `new`
ModifiedCount(old, new) == IF old = new THEN 0 ELSE 1

---------------------------------------------------------------------------
(* Search: new RegExp(query, "i") and $regex *)

SearchFields == {"topic", "category", "subject", "location", "level"}

\* Letter case folding of the "i" flag
Lower(c) ==
    CASE c = "A" -> "a" [] c = "R" -> "r" [] c = "T" -> "t"
      [] c = "M" -> "m" [] c = "H" -> "h" [] c = "P" -> "p"
      [] OTHER -> c

\* new RegExp(query) throws a SyntaxError on an unterminated group; of the
\* characters used here only "(" opens one
RegExpCompiles(query) == \A i \in 1..Len(query) : query[i] # "("

\* The pattern matches at offset off of s: a letter matches itself in either
\* case, "." matches any character
MatchesAt(query, s, off) ==
    \A j \in 1..Len(query) :
        \/ query[j] = "."
        \/ Lower(query[j]) = Lower(s[off + j])

\* { field: { $regex: searchRegex } }: only a string can match, anywhere in it
RegexMatch(query, v) ==
    /\ v.t = "str"
    /\ \E off \in 0..(Len(v.s) - Len(query)) : MatchesAt(query, v.s, off)

\* find({ $or: [...] }) over the five fields
SearchResults(coll, query) ==
    {i \in DOMAIN coll : \E f \in SearchFields : RegexMatch(query, coll[i][f])}

---------------------------------------------------------------------------
(* State *)

Init ==
    /\ pc = "connect"
    /\ lessonsCollection = FALSE
    /\ ordersCollection = FALSE
    /\ listening = FALSE
    /\ lessons = [i \in {} |-> EmptyBody]
    /\ orders = <<>>
    /\ inflight = EmptyBag
    /\ res = NoRequest

---------------------------------------------------------------------------
(* connectDB (39-54) *)

\* await client.connect() resolves
ConnectOk ==
    /\ pc = "connect"
    /\ pc' = "connected"
    /\ UNCHANGED <<lessonsCollection, ordersCollection, listening, lessons, orders, inflight, res>>

\* (variant: app.listen called outside the try block, whatever the outcome)
ConnectFail_listens ==
    /\ pc = "connect"
    /\ pc' = "failed"
    /\ listening' = TRUE
    /\ UNCHANGED <<lessonsCollection, ordersCollection, lessons, orders, inflight, res>>

\* await client.connect() rejects: the catch block logs and returns
ConnectFail ==
    /\ pc = "connect"
    /\ pc' = "failed"
    /\ UNCHANGED <<lessonsCollection, ordersCollection, listening, lessons, orders, inflight, res>>

\* lines 42-44
SetCollections ==
    /\ pc = "connected"
    /\ pc' = "ready"
    /\ lessonsCollection' = TRUE
    /\ ordersCollection' = TRUE
    /\ UNCHANGED <<listening, lessons, orders, inflight, res>>

\* lines 48-49
Listen ==
    /\ pc = "ready"
    /\ pc' = "running"
    /\ listening' = TRUE
    /\ UNCHANGED <<lessonsCollection, ordersCollection, lessons, orders, inflight, res>>

---------------------------------------------------------------------------
(* Route handlers.  A request is accepted only once the port is bound, and  *)
(* reaches a route only through the middleware stack.                       *)

\* Node runs one callback at a time: a handler step starts when the previous
\* exchange has ended
Ready == res.op = "none"

Routed(rq) == Ready /\ listening /\ Dispatch(rq).by = "router"

Logged(rq) == Dispatch(rq).logged

\* GET / (56-58)
GetRoot ==
    /\ Routed(ApiRequest)
    /\ res' = Response("root", "", 0, EmptyBody, <<>>, 200, "Backend is running",
                       0, {}, Logged(ApiRequest))
    /\ UNCHANGED <<pc, lessonsCollection, ordersCollection, listening, lessons, orders, inflight>>

\* GET /api/lessons (61-69)
GetLessons ==
    /\ Routed(ApiRequest)
    /\ res' = IF lessonsCollection
              THEN Response("list", "", 0, EmptyBody, <<>>, 200, "", 0,
                            DOMAIN lessons, Logged(ApiRequest))
              ELSE Response("list", "", 0, EmptyBody, <<>>, 500, "Server error", 0,
                            {}, Logged(ApiRequest))
    /\ UNCHANGED <<pc, lessonsCollection, ordersCollection, listening, lessons, orders, inflight>>

\* (variant: the check of `space` left out of the condition)
MissingRequired_noSpace(body) == \E f \in Fields \ {"space"} : ~Truthy(body[f])

\* The validation of line 88
MissingRequired(body) == \E f \in Fields : ~Truthy(body[f])

\* (variant: `subject` left out of the document)
NewLesson_noSubject(body) ==
    [k \in Keys |-> IF k \in Fields \ {"subject"} THEN body[k] ELSE Undefined]

\* The document built at lines 92-103
NewLesson(body) == [k \in Keys |-> IF k \in Fields THEN body[k] ELSE Undefined]

\* POST /api/lessons (72-116)
PostLesson(body) ==
    /\ Routed(ApiRequest)
    /\ IF MissingRequired(body)
       THEN /\ res' = Response("insert", "", 0, body, <<>>, 400,
                               "Missing required lesson fields", 0, {}, Logged(ApiRequest))
            /\ UNCHANGED lessons
       ELSE IF ~lessonsCollection
       THEN /\ res' = Response("insert", "", 0, body, <<>>, 500, "Server error",
                               0, {}, Logged(ApiRequest))
            /\ UNCHANGED lessons
       ELSE /\ Cardinality(DOMAIN lessons) < MaxLessons
            /\ lessons' = InsertOne(lessons, NewLesson(body))
            /\ res' = Response("insert", "", 0, body, <<>>, 201,
                               "Lesson added successfully", InsertedId(lessons), {},
                               Logged(ApiRequest))
    /\ UNCHANGED <<pc, lessonsCollection, ordersCollection, listening, orders, inflight>>

\* PUT /api/lessons/:id (119-144)
PutLesson(id, updates) ==
    /\ Routed(ApiRequest)
    /\ IF ObjectKeys(updates) = {}
       THEN /\ res' = Response("update", "", id, updates, <<>>, 400,
                               "No fields provided to update", 0, {}, Logged(ApiRequest))
            /\ UNCHANGED lessons
       ELSE IF ~lessonsCollection \/ ~ObjectIdValid(id)
       THEN /\ res' = Response("update", "", id, updates, <<>>, 500, "Server error",
                               0, {}, Logged(ApiRequest))
            /\ UNCHANGED lessons
       ELSE IF id \notin DOMAIN lessons
       THEN /\ res' = Response("update", "", id, updates, <<>>, 404, "Lesson not found",
                               0, {}, Logged(ApiRequest))
            /\ UNCHANGED lessons
       ELSE /\ lessons' = [lessons EXCEPT ![id] = SetFields(@, updates)]
            /\ res' = Response("update", "", id, updates, <<>>, 200,
                               "Lesson updated successfully", 0, {}, Logged(ApiRequest))
    /\ UNCHANGED <<pc, lessonsCollection, ordersCollection, listening, orders, inflight>>

\* POST /api/orders (149-158)
PostOrder(body) ==
    /\ Routed(ApiRequest)
    /\ IF ~ordersCollection
       THEN /\ res' = Response("order", "", 0, body, <<>>, 400, "Insert failed",
                               0, {}, Logged(ApiRequest))
            /\ UNCHANGED orders
       ELSE /\ Len(orders) < MaxOrders
            /\ orders' = Append(orders, body)
            /\ res' = Response("order", "", 0, body, <<>>, 201,
                               "Order saved successfully", 0, {}, Logged(ApiRequest))
    /\ UNCHANGED <<pc, lessonsCollection, ordersCollection, listening, lessons, inflight>>

\* GET /api/lessons/search (163-191)
Search(query) ==
    /\ Routed(ApiRequest)
    /\ res' = IF query = <<>>
              THEN Response("search", "", 0, EmptyBody, query, 400,
                            "Search query is required", 0, {}, Logged(ApiRequest))
              ELSE IF ~RegExpCompiles(query) \/ ~lessonsCollection
              THEN Response("search", "", 0, EmptyBody, query, 500, "Server error",
                            0, {}, Logged(ApiRequest))
              ELSE Response("search", "", 0, EmptyBody, query, 200, "", 0,
                            SearchResults(lessons, query), Logged(ApiRequest))
    /\ UNCHANGED <<pc, lessonsCollection, ordersCollection, listening, lessons, orders, inflight>>

\* `lesson.space <= 0` (205): the relational operator converts its operand
\* to a number; a non-numeric string and undefined convert to NaN, and every
\* comparison with NaN is false
NoSpacesLeft(v) ==
    CASE v.t = "num" -> v.n <= 0
      [] v.t = "str" -> v.s = <<>>
      [] v.t = "bool" -> v.n <= 0
      [] v.t = "null" -> TRUE
      [] OTHER -> FALSE

\* PUT /api/lessons/:id/decrement, up to the first await's result (195-207)
DecrementLookup(id) ==
    /\ Routed(ApiRequest)
    /\ IF ~ObjectIdValid(id) \/ ~lessonsCollection
       THEN /\ res' = Response("decrement", "lookup", id, EmptyBody, <<>>, 500,
                               "Server error", 0, {}, Logged(ApiRequest))
            /\ UNCHANGED inflight
       ELSE IF id \notin DOMAIN lessons
       THEN /\ res' = Response("decrement", "lookup", id, EmptyBody, <<>>, 404,
                               "Lesson not found", 0, {}, Logged(ApiRequest))
            /\ UNCHANGED inflight
       ELSE IF NoSpacesLeft(lessons[id]["space"])
       THEN /\ res' = Response("decrement", "lookup", id, EmptyBody, <<>>, 400,
                               "No spaces left for this lesson", 0, {}, Logged(ApiRequest))
            /\ UNCHANGED inflight
       ELSE /\ BagCardinality(inflight) < MaxInflight
            /\ inflight' = inflight (+) SetToBag({[id |-> id, seen |-> lessons[id]["space"]]})
            /\ res' = Response("decrement", "lookup", id, EmptyBody, <<>>, 0, "",
                               0, {}, Logged(ApiRequest))
    /\ UNCHANGED <<pc, lessonsCollection, ordersCollection, listening, lessons, orders>>

\* ... and from the updateOne to the response (209-223)
DecrementWrite(rq) ==
    /\ Ready
    /\ BagIn(rq, inflight)
    /\ inflight' = inflight (-) SetToBag({rq})
    /\ LET id == rq.id IN
       IF id \notin DOMAIN lessons
       THEN /\ res' = Response("decrement", "write", id, EmptyBody, <<>>, 400,
                               "Failed to update lesson space", 0, {}, Logged(ApiRequest))
            /\ UNCHANGED lessons
       ELSE IF ~CanInc(lessons[id])
       THEN /\ res' = Response("decrement", "write", id, EmptyBody, <<>>, 500,
                               "Server error", 0, {}, Logged(ApiRequest))
            /\ UNCHANGED lessons
       ELSE /\ lessons' = [lessons EXCEPT ![id] = IncSpace(@)]
            /\ res' = IF ModifiedCount(lessons[id], IncSpace(lessons[id])) = 1
                      THEN Response("decrement", "write", id, EmptyBody, <<>>, 200,
                                    "Lesson space decremented successfully", 0, {},
                                    Logged(ApiRequest))
                      ELSE Response("decrement", "write", id, EmptyBody, <<>>, 400,
                                    "Failed to update lesson space", 0, {},
                                    Logged(ApiRequest))
    /\ UNCHANGED <<pc, lessonsCollection, ordersCollection, listening, orders>>

\* GET /pictures/:file: express.static sends the file if it exists (15),
\* otherwise the 404 handler answers (19-25)
GetPicture(file) ==
    /\ Ready
    /\ listening
    /\ Dispatch(PictureRequest(file)).by \in {"static", "pictures404"}
    /\ res' = IF Dispatch(PictureRequest(file)).by = "static"
              THEN Response("picture", "", 0, EmptyBody, <<>>, 200, file, 0, {},
                            Logged(PictureRequest(file)))
              ELSE Response("picture", "", 0, EmptyBody, <<>>, 404,
                            "Error: Lesson image not found on server.", 0, {},
                            Logged(PictureRequest(file)))
    /\ UNCHANGED <<pc, lessonsCollection, ordersCollection, listening, lessons, orders, inflight>>

\* res.json / res.send has written the response (or the handler has yielded
\* at an await): the step is over
EndResponse ==
    /\ res.op # "none"
    /\ res' = NoRequest
    /\ UNCHANGED <<pc, lessonsCollection, ordersCollection, listening, lessons, orders, inflight>>

---------------------------------------------------------------------------

Next ==
    \/ ConnectOk
    \/ ConnectFail
    \/ SetCollections
    \/ Listen
    \/ GetRoot
    \/ GetLessons
    \/ \E body \in LessonBodies : PostLesson(body)
    \/ \E id \in IdParams, updates \in UpdateBodies : PutLesson(id, updates)
    \/ \E body \in OrderBodies : PostOrder(body)
    \/ \E query \in Queries : Search(query)
    \/ \E id \in IdParams : DecrementLookup(id)
    \/ \E rq \in BagToSet(inflight) : DecrementWrite(rq)
    \/ \E file \in PictureFiles : GetPicture(file)
    \/ EndResponse

Spec == Init /\ [][Next]_vars

---------------------------------------------------------------------------
(* Properties *)

Space(id) == lessons[id]["space"]

\* The step is the final step of a decrement request that looked up `rq`
IsWriteOf(rq) ==
    /\ BagIn(rq, inflight)
    /\ res'.op = "decrement" /\ res'.stage = "write" /\ res'.id = rq.id
    /\ inflight' = inflight (-) SetToBag({rq})

\* The step is the lookup step of a decrement request
IsLookup == res'.op = "decrement" /\ res'.stage = "lookup"

\* v contains q as a substring when letter case is ignored
ContainsIgnoreCase(v, q) ==
    /\ v.t = "str"
    /\ \E off \in 0..(Len(v.s) - Len(q)) :
          \A j \in 1..Len(q) : Lower(q[j]) = Lower(v.s[off + j])

\* C1: in every reachable state every stored lesson has space >= 0.
C1_SpaceNeverNegative ==
    \A id \in DOMAIN lessons : Space(id).t = "num" /\ Space(id).n >= 0

\* C2: a decrement request whose lookup found space = N > 0 writes once,
\* leaves the stored space at N - 1 right after its write, and reports 200
\* "Lesson space decremented successfully".
C2_DecrementLeavesNMinusOne ==
    [][\A rq \in BagToSet(inflight) :
         IsWriteOf(rq) =>
            /\ rq.id \in DOMAIN lessons'
            /\ lessons'[rq.id]["space"] = Num(rq.seen.n - 1)
            /\ res'.status = 200
            /\ res'.message = "Lesson space decremented successfully"]_vars

\* C3: a decrement request that stops at its lookup writes nothing; it
\* reports 404 "Lesson not found" whenever its id identifies no stored lesson,
\* and 400 "No spaces left for this lesson" when the lesson found has
\* space <= 0; lessons and orders stay as they were.
C3_NoWriteBeforeDecrement ==
    [][IsLookup =>
         /\ res'.id \notin DOMAIN lessons =>
               /\ res'.status = 404 /\ res'.message = "Lesson not found"
               /\ lessons' = lessons /\ orders' = orders
         /\ (res'.id \in DOMAIN lessons /\ Space(res'.id).n <= 0) =>
               /\ res'.status = 400 /\ res'.message = "No spaces left for this lesson"
               /\ lessons' = lessons /\ orders' = orders]_vars

\* C4: a creation payload with at least one of the ten fields absent or
\* falsy is answered 400 "Missing required lesson fields" and the lessons
\* collection is unchanged.
C4_MissingFieldRejected ==
    [][(res'.op = "insert" /\ \E f \in Fields : res'.arg[f] \in FalsyValues) =>
         /\ res'.status = 400
         /\ res'.message = "Missing required lesson fields"
         /\ lessons' = lessons]_vars

C4_Witness ==
    /\ res.op = "insert" /\ res.status = 400
    /\ res.arg["space"] = Num(0)
    /\ \A f \in Fields \ {"space"} : res.arg[f] \notin FalsyValues
    /\ DOMAIN lessons # {}

\* C5: a creation payload whose ten fields are all truthy is answered 201
\* with a lessonId; the collection grows by exactly one record with that id,
\* whose ten fields equal the payload's, and every lesson stored before is
\* unchanged.
C5_ValidLessonStored ==
    [][(res'.op = "insert" /\ \A f \in Fields : res'.arg[f] \notin FalsyValues) =>
         /\ res'.status = 201
         /\ res'.lessonId \notin DOMAIN lessons
         /\ DOMAIN lessons' = DOMAIN lessons \cup {res'.lessonId}
         /\ \A f \in Fields : lessons'[res'.lessonId][f] = res'.arg[f]
         /\ \A id \in DOMAIN lessons : lessons'[id] = lessons[id]]_vars

C5_Witness ==
    /\ res.op = "insert" /\ res.status = 201
    /\ res.lessonId \in DOMAIN lessons
    /\ Cardinality(DOMAIN lessons) >= 2

C7_ListenOnlyAfterConnect ==
    /\ [](listening => (pc = "running" /\ lessonsCollection /\ ordersCollection))
    /\ [](pc = "failed" => (~listening /\ res = NoRequest))
    /\ [][res'.op # "none" => (listening /\ pc = "running")]_vars

C7_Witness == listening /\ res.status = 201 /\ lessonsCollection /\ ordersCollection

\* C8: no response is sent, on any route, without the logging middleware
\* having run for that request first.
C8_LoggedBeforeResponse == res.status # 0 => res.logged

\* C9: for a non-empty q, search returns exactly the stored lessons one of
\* whose topic, category, subject, location, level contains q as a substring,
\* letter case ignored; a missing q is answered 400 "Search query is required".
C9_SearchIsSubstringMatch ==
    res.op = "search" =>
        IF res.q = <<>>
        THEN res.status = 400 /\ res.message = "Search query is required"
        ELSE /\ res.status = 200
             /\ res.body = {id \in DOMAIN lessons :
                              \E f \in SearchFields : ContainsIgnoreCase(lessons[id][f], res.q)}

====
